---- MODULE Spec2Model ----
(***************************************************************************)
(* Model of the rtt-fuzzer driver (src/rtt-module.js): the exported fuzz    *)
(* function, its choice helpers pick/rnd over the FuzzedDataProvider, and   *)
(* the crash reporter log_crash.  The rules engine (RULES) is the           *)
(* environment: each of its calls answers with a value drawn from a small   *)
(* set.  One run of fuzz is cut into its stages (pc), one action per stage, *)
(* in the order of the source lines.                                        *)
(***************************************************************************)
EXTENDS Integers, Sequences, FiniteSets, TLC

VARIABLES
    RND, NO_UNDO, NO_RESIGN,  \* configuration flags (lines 8-10)
    RULES,                    \* what the rules module exposes (line 17)
    data,                     \* FuzzedDataProvider: bytes and remainingBytes
    pc,                       \* position of the run inside fuzz
    game_setup,               \* {seed, scenario, options} (lines 47-51)
    state,                    \* current Game State (lines 53, 133, 135)
    step,                     \* step counter (lines 55, 141)
    active,                   \* role acting in this step (lines 61-65)
    view,                     \* RULES.view result; view.actions is aliased by `actions`
    viewRaw,                  \* the actions mapping exactly as RULES.view returned it
    names,                    \* Object.keys(actions) handed to pick (line 104)
    action, args, arg,        \* lines 104-106, 117
    result,                   \* how the call of fuzz ended
    crash,                    \* the log_crash calls of this run, in order
    hook,                     \* the last context handed to RULES.fuzz_log
    calls,                    \* number of RULES.setup / RULES.action+resign calls
    lastApply,                \* the last RULES.action / RULES.resign call
    lastResult,               \* the state last returned by setup / action / resign
    run,                      \* 0: single run; 1, 2: first and second run of a replay
    trace,                    \* decisions of the current run (recorded in a replay)
    first,                    \* decisions and ending of the first run of a replay
    held                      \* view objects the rules engine keeps and hands out again

vars == << RND, NO_UNDO, NO_RESIGN, RULES, data, pc, game_setup, state, step,
           active, view, viewRaw, names, action, args, arg, result, crash, hook,
           calls, lastApply, lastResult, run, trace, first, held >>

(***************************************************************************)
(* Bounds of the model and constants of the program.                       *)
(***************************************************************************)
\* MAX_STEPS is read from the environment (line 7); the model runs a small one.
MAX_STEPS == 2
\* The minimum-bytes threshold of lines 37 and 57.
MinBytes == 16
\* Buffers that pass the first guard carry 0..MaxSlack bytes above what the
\* seed needs, so the loop guard trips after that many consumed bytes.
MaxSlack == 2
\* Number of bytes in front of the seed bytes that vary over ByteVals.
ChoiceBytes == 2
\* Math.random() at the seed draw (line 41) is run at the fractions
\* k / SeedSamples, k = 0 .. SeedSamples - 1, and at the top of its range.
SeedSamples == 4

\* 2**35-31 - 1 needs 35 bits: consumeIntegralInRange reads 5 bytes for the seed.
SeedBytes == 5
Min(a, b) == IF a < b THEN a ELSE b

(***************************************************************************)
(* Values.  A descriptor is the value of one entry of view.actions.        *)
(***************************************************************************)
DBool(b)  == [t |-> "boolean", v |-> IF b THEN 1 ELSE 0, keys |-> <<>>, pool |-> <<>>]
DNum(n)   == [t |-> "number", v |-> n, keys |-> <<>>, pool |-> <<>>]
DNull     == [t |-> "null", v |-> 0, keys |-> <<>>, pool |-> <<>>]
DUndef    == [t |-> "undefined", v |-> 0, keys |-> <<>>, pool |-> <<>>]
\* An array: its keys are its indices "0", "1", ...
IndexKeys == << "0", "1", "2" >>
DArr(s)   == [t |-> "array", v |-> 0, keys |-> SubSeq(IndexKeys, 1, Len(s)), pool |-> s]
\* A plain object used as a pool: its keys are property names.
DObj(k, s) == [t |-> "object", v |-> 0, keys |-> k, pool |-> s]

\* isNaN(x) of JavaScript on the strings and numbers of the model.
NumericStrings == { "0", "1", "2", "10", "20" }
isNaN(x) == x \notin NumericStrings

Item(k, d) == [key |-> k, value |-> d]
Keys(a) == [i \in 1..Len(a) |-> a[i].key]
Has(a, k) == \E i \in 1..Len(a) : a[i].key = k
Get(a, k) == IF Has(a, k) THEN (CHOOSE e \in { a[i] : i \in 1..Len(a) } : e.key = k).value
             ELSE DUndef
\* delete a[k]
Delete(a, k) == SelectSeq(a, LAMBDA e : e.key # k)
\* a[k] = d : an existing key keeps its place, a new key goes last
Put(a, k, d) == IF Has(a, k) THEN [i \in 1..Len(a) |-> IF a[i].key = k THEN Item(k, d) ELSE a[i]]
                ELSE Append(a, Item(k, d))

(***************************************************************************)
(* Input buffers.  Integral values are consumed from the END of the buffer, *)
(* so a buffer is zero padding, then ChoiceBytes varying bytes, then the    *)
(* five bytes the seed is read from.                                        *)
(***************************************************************************)
Zeros(n) == [i \in 1..n |-> 0]
ByteVals == { 1, 2 }
SeedTails == { << 0, 0, 0, 0, 0 >>, << 255, 255, 255, 255, 255 >>, << 226, 255, 255, 255, 7 >> }
\* Long enough for the guard never to trip within MAX_STEPS + 2 iterations.
LongLen == MinBytes + SeedBytes + 1 + 3 * (MAX_STEPS + 2)
BufLens == { MinBytes + SeedBytes + k : k \in 0..MaxSlack } \cup { LongLen }
ShortBuffers == { Zeros(0), Zeros(MinBytes - 1), Zeros(MinBytes) }
LongBuffers ==
    { Zeros(n - SeedBytes - ChoiceBytes) \o ch \o << 1, 2, 3, 4, 5 >> :
        n \in BufLens, ch \in [1..ChoiceBytes -> ByteVals] }
SeedBuffers == { Zeros(LongLen - SeedBytes) \o sb : sb \in SeedTails }
Buffers == ShortBuffers \cup LongBuffers \cup SeedBuffers

(***************************************************************************)
(* FuzzedDataProvider (@jazzer.js/core), as used by rnd and pick.           *)
(* A provider is [bytes, remaining]; only integrals are consumed, so the    *)
(* read position is always the end of the unconsumed part.                  *)
(***************************************************************************)
NewProvider(bytes) == [bytes |-> bytes, remaining |-> Len(bytes)]

\* Math.ceil(Math.log2(range + 1) / 8) for the ranges of the model's picks.
NumBytesFor(range) == IF range < 256 THEN 1 ELSE IF range < 65536 THEN 2 ELSE 3

\* The little-endian value of bytes[from+1 .. from+n].
RECURSIVE ReadUIntLE(_, _, _)
ReadUIntLE(bytes, from, n) ==
    IF n = 0 THEN 0
    ELSE bytes[from + 1] + 256 * ReadUIntLE(bytes, from + 1, n - 1)

\* data.consumeIntegralInRange(min, max) for max - min < 2^24:
\* [val, remaining, threw].
consumeIntegralInRange(d, min, max) ==
    IF d.remaining = 0 \/ min = max
    THEN [val |-> min, remaining |-> d.remaining, threw |-> FALSE]
    ELSE IF min > max
    THEN [val |-> min, remaining |-> d.remaining, threw |-> TRUE]
    ELSE LET range == max - min
             n     == Min(d.remaining, NumBytesFor(range))
             rem   == d.remaining - n
         IN [val |-> min + (ReadUIntLE(d.bytes, rem, n) % (range + 1)),
             remaining |-> rem, threw |-> FALSE]

(***************************************************************************)
(* The seed, an integer in 1 .. 2^35-31, is kept as two limbs               *)
(* [hi, lo] = hi * 2^20 + lo, with 0 <= lo < 2^20.                          *)
(***************************************************************************)
Limb == 2^20
SeedOf(hi, lo) == [hi |-> hi + (lo \div Limb), lo |-> lo % Limb]
\* 2^35 - 31, the largest seed and the modulus of the seed draw.
MaxSeed == [hi |-> 2^15 - 1, lo |-> Limb - 31]
SeedLess(a, b) == a.hi < b.hi \/ (a.hi = b.hi /\ a.lo < b.lo)

\* data.consumeIntegralInRange(1, 2**35-31): 1 + (v % (2^35-31)) for the
\* little-endian v of the last (up to five) unconsumed bytes.  With
\* v = h * 2^35 + l,  v % (2^35-31) = (31 * h + l) % (2^35-31).
consumeSeed(d) ==
    IF d.remaining = 0
    THEN [val |-> SeedOf(0, 1), remaining |-> 0, threw |-> FALSE]
    ELSE LET n   == Min(d.remaining, SeedBytes)
             rem == d.remaining - n
             b   == [j \in 0..4 |-> IF j < n THEN d.bytes[rem + j + 1] ELSE 0]
             h   == b[4] \div 8
             lo  == b[0] + 256 * b[1] + 65536 * (b[2] % 16)
             hi  == (b[2] \div 16) + 16 * b[3] + 4096 * (b[4] % 8)
             s   == SeedOf(hi, lo + 31 * h)
             r   == IF SeedLess(s, MaxSeed) THEN s
                    ELSE SeedOf(s.hi - MaxSeed.hi - 1, s.lo + Limb - MaxSeed.lo)
         IN [val |-> SeedOf(r.hi, r.lo + 1), remaining |-> rem, threw |-> FALSE]

\* line 30 at the seed draw: Math.floor(Math.random() * (2^35-31) + 1) with
\* Math.random() anywhere in [0, 1) is any integer of 1 .. 2^35-31.
RandomSeeds ==
    { s \in [hi : 0..MaxSeed.hi, lo : 0..(Limb - 1)] :
        ~SeedLess(s, SeedOf(0, 1)) /\ ~SeedLess(MaxSeed, s) }

(***************************************************************************)
(* rnd and pick (lines 19-33): the set of outcomes [val, remaining, threw]. *)
(* With RND on the provider is not touched and any index may come out;      *)
(* with RND off the outcome is the provider's.                              *)
(***************************************************************************)
rnd(d, min, max) ==
    IF RND
    THEN { [val |-> x, remaining |-> d.remaining, threw |-> FALSE] :
             x \in IF max >= min THEN min..max ELSE { min } }
    ELSE { consumeIntegralInRange(d, min, max) }

rndSeed(d) ==
    IF RND
    THEN [val : RandomSeeds, remaining : { d.remaining }, threw : { FALSE }]
    ELSE { consumeSeed(d) }

\* a[i] of a JavaScript array held as a sequence (0-based i).
At(a, i, undef) == IF i + 1 \in 1..Len(a) THEN a[i + 1] ELSE undef

\* data.pickValue(a): throws on an empty array.
pickValue(d, a, undef) ==
    LET r == consumeIntegralInRange(d, 0, Len(a) - 1)
    IN [val |-> At(a, r.val, undef), remaining |-> r.remaining,
        threw |-> r.threw \/ Len(a) = 0]

pick(d, a, undef) ==
    IF RND
    THEN { [val |-> At(a, r.val - 1, undef), remaining |-> r.remaining, threw |-> FALSE] :
             r \in rnd(d, 1, Len(a)) }
    ELSE { pickValue(d, a, undef) }

(***************************************************************************)
(* The rules engine as the environment.                                    *)
(***************************************************************************)
RolesList == << "r1", "r2" >>
\* `table` names the rules table a deterministic engine follows (0: none);
\* `shares` tells an engine that keeps the view object it built for a (state,
\* role) and returns that same object when asked again.
Engine(sc, ro, re, fl) ==
    [scenarios |-> sc, roles |-> ro, resign |-> re, fuzz_log |-> fl, table |-> 0,
     shares |-> FALSE]
\* Two ordinary engines (with and without resign) and two whose scenario or
\* role list is empty.
EngineResign   == Engine(<< "s1", "s2" >>, RolesList, TRUE, TRUE)
EngineNoResign == Engine(<< "s1" >>, RolesList, FALSE, FALSE)
EngineNoScenarios == Engine(<< >>, RolesList, TRUE, FALSE)
EngineNoRoles  == Engine(<< "s1", "s2" >>, << >>, FALSE, TRUE)

\* Game states: opaque but for `active` and `state`; id tells them apart
\* (the number of accepted actions behind the state).
StateKinds == << [active |-> "r1", state |-> "play"], [active |-> "Both", state |-> "play"],
                [active |-> "All", state |-> "play"], [active |-> "r1", state |-> "game_over"],
                [active |-> "Both", state |-> "game_over"] >>
MkState(k, id) == [active |-> StateKinds[k].active, state |-> StateKinds[k].state, id |-> id]
GameStates(id) == { MkState(k, id) : k \in 1..Len(StateKinds) }
NoState == [active |-> "", state |-> "", id |-> -1]

\* Views: `undo` and `move` each absent or carrying one of the descriptor
\* shapes; or an action the engine itself names "_resign"; or no actions
\* field at all.
Absent == [t |-> "absent", v |-> 0, keys |-> <<>>, pool |-> <<>>]
UndoShapes == << Absent, DNum(0), DNum(1) >>
MoveShapes == << DArr(<< "10", "20" >>), DBool(TRUE), DBool(FALSE), DArr(<< >>), Absent,
                 DArr(<< "10", "NaN" >>), DObj(<< "x" >>, << "10" >>), DNull,
                 DObj(<< "0", "1" >>, << "10", "20" >>) >>
Mapping(u, m) ==
    (IF u = Absent THEN << >> ELSE << Item("undo", u) >>)
    \o (IF m = Absent THEN << >> ELSE << Item("move", m) >>)
\* `defined` tells a view RULES.view returned from the unset variable.
NoView == [defined |-> FALSE, hasActions |-> FALSE, actions |-> << >>]
ViewWithoutActions == [defined |-> TRUE, hasActions |-> FALSE, actions |-> << >>]
ViewOf(i, j) ==
    [defined |-> TRUE, hasActions |-> TRUE, actions |-> Mapping(UndoShapes[i], MoveShapes[j])]
ViewWith(actions) == [defined |-> TRUE, hasActions |-> TRUE, actions |-> actions]
ResignViews ==
    << ViewWith(<< Item("_resign", DNum(0)), Item("move", DArr(<< "10", "20" >>)) >>),
       ViewWith(<< Item("_resign", DNum(1)) >>),
       ViewWith(<< Item("_resign", DNum(0)) >>) >>
Views == { ViewWithoutActions }
         \cup { ViewOf(i, j) : i \in 1..Len(UndoShapes), j \in 1..Len(MoveShapes) }
         \cup { ResignViews[i] : i \in 1..Len(ResignViews) }

(***************************************************************************)
(* Deterministic rules engines: setup, view, action and resign as pure      *)
(* functions of their arguments, one family member per RULES.table.         *)
(***************************************************************************)
IndexIn(seq, x) == IF \E i \in 1..Len(seq) : seq[i] = x
                   THEN CHOOSE i \in 1..Len(seq) : seq[i] = x ELSE 0
KindOf(st) == IndexIn(StateKinds, [active |-> st.active, state |-> st.state])
ActionNames == << "move", "undo", "_resign" >>
ArgValues == << "null", "10", "20", "NaN" >>
RulesSetup(seed, scenario) ==
    MkState(((seed.lo + IndexIn(<< "s1", "s2" >>, scenario) + RULES.table) % 3) + 1, 0)
RulesView(st, act) ==
    LET h == st.id + KindOf(st) + IndexIn(RolesList, act) + RULES.table
    IN IF h % 7 = 6 THEN ViewWithoutActions
       ELSE IF h % 4 = 3 THEN ResignViews[((h \div 4) % Len(ResignViews)) + 1]
       ELSE ViewOf((h % Len(UndoShapes)) + 1, (h % 5) + ((h \div 5) % 2) * 3 + 1)
RulesApply(st, act, actn, a) ==
    LET h == st.id + KindOf(st) + IndexIn(RolesList, act) + IndexIn(ActionNames, actn)
             + IndexIn(ArgValues, a) + RULES.table
    IN [state |-> MkState((h % Len(StateKinds)) + 1, st.id + 1), raises |-> h % 6 = 5]

(***************************************************************************)
(* Action-set normalization (lines 83-98) on the mapping `actions`, which   *)
(* is view.actions itself.                                                  *)
(***************************************************************************)
\* variant: undo left in place
RemoveUndoSkipped(actions) == actions
\* lines 84-87
RemoveUndo(actions) ==
    IF NO_UNDO /\ Has(actions, "undo") THEN Delete(actions, "undo") ELSE actions

\* variant: an entry already named "_resign" is taken out, not overwritten
InjectResignToggled(actions) ==
    IF ~NO_RESIGN /\ RULES.resign
    THEN IF Has(actions, "_resign") THEN Delete(actions, "_resign")
         ELSE Put(actions, "_resign", DNum(1))
    ELSE actions
\* lines 88-90
InjectResign(actions) ==
    IF ~NO_RESIGN /\ RULES.resign THEN Put(actions, "_resign", DNum(1)) ELSE actions

\* line 95: value === false || value === 0 || value.length === 0
IsFalse(value) == value.t = "boolean" /\ value.v = 0
\* variant: the `=== 0` test left out
IsZeroIgnored(value) == FALSE
IsZero(value) == value.t = "number" /\ value.v = 0
\* value.length of null or undefined is a TypeError
LengthThrows(value) == value.t \in { "null", "undefined" }
\* variant: the `.length === 0` test never true
HasLengthZeroIgnored(value) == FALSE
HasLengthZero(value) == value.t = "array" /\ Len(value.pool) = 0
\* the whole test, left to right with short-circuit: [val, threw]
Disabled(value) ==
    IF IsFalse(value) \/ IsZero(value) THEN [val |-> TRUE, threw |-> FALSE]
    ELSE IF LengthThrows(value) THEN [val |-> FALSE, threw |-> TRUE]
    ELSE [val |-> HasLengthZero(value), threw |-> FALSE]

\* lines 94-98 over the entries snapshot, from entry i on: [actions, threw]
RECURSIVE RemoveDisabled(_, _, _)
RemoveDisabled(entries, i, actions) ==
    IF i > Len(entries) THEN [actions |-> actions, threw |-> FALSE]
    ELSE LET e == entries[i]
             t == Disabled(e.value)
         IN IF t.threw THEN [actions |-> actions, threw |-> TRUE]
            ELSE IF t.val
            THEN RemoveDisabled(entries, i + 1, Delete(actions, e.key))
            ELSE RemoveDisabled(entries, i + 1, actions)

Normalize(actions) ==
    LET a == InjectResign(RemoveUndo(actions))
    IN RemoveDisabled(a, 1, a)

(***************************************************************************)
(* log_crash (lines 146-158): one record per call; `artifact` is what is    *)
(* written to crash-state.json.                                             *)
(***************************************************************************)
\* variant: the dump made with the counter already incremented
log_crashNextStep(st, vw, stp, act, actn, a) ==
    Append(crash, [game_setup |-> game_setup, state |-> st, view |-> vw, step |-> stp + 1,
                   active |-> act, action |-> actn, args |-> a, artifact |-> st])
log_crash(st, vw, stp, act, actn, a) ==
    Append(crash, [game_setup |-> game_setup, state |-> st, view |-> vw, step |-> stp,
                   active |-> act, action |-> actn, args |-> a, artifact |-> st])

NoCall == [fn |-> "", state |-> NoState, active |-> "", action |-> "", arg |-> "", threw |-> ""]
NoHook == [called |-> FALSE, view |-> NoView, actions |-> << >>, chosen_action |-> "",
           chosen_arg |-> ""]
NoSetup == [seed |-> SeedOf(0, 0), scenario |-> ""]
Event(kind, sd, a, b, c) == [kind |-> kind, seed |-> sd, a |-> a, b |-> b, c |-> c]
Record(ev) == IF run = 0 THEN trace ELSE Append(trace, ev)
NoFirst == [trace |-> << >>, result |-> [kind |-> "", cause |-> ""], state |-> NoState]

(***************************************************************************)
(* The run of fuzz (lines 35-143), stage by stage.                          *)
(***************************************************************************)
cfgVars    == << RND, NO_UNDO, NO_RESIGN, RULES >>
loopVars   == << active, view, viewRaw, names, action, args, arg, hook >>
replayVars == << run, first, held >>

\* The view objects a sharing engine keeps, one per (state, role).
HeldFor(st, act) == { h \in held : h.state = st /\ h.active = act }
\* the engine stores (or the driver changes in place) the object for (st, act)
Hold(st, act, v) ==
    IF run # 0 /\ RULES.shares
    THEN (held \ HeldFor(st, act)) \cup { [state |-> st, active |-> act, view |-> v] }
    ELSE held
\* what RULES.view(st, act) of a deterministic engine returns
ViewReturned(st, act) ==
    IF RULES.shares /\ HeldFor(st, act) # { }
    THEN (CHOOSE h \in HeldFor(st, act) : TRUE).view
    ELSE RulesView(st, act)

Consumed(r) == [data EXCEPT !.remaining = r.remaining]

\* what a failure terminal does: dump, then raise
Ended(kind, cause) == [kind |-> kind, cause |-> cause]
Running == Ended("running", "")
\* variant: the error is raised without the dump
RaiseWithoutDump(err, dump) ==
    /\ crash' = crash
    /\ result' = Ended(err, "")
    /\ pc' = "done"
Raise(err, dump) ==
    /\ crash' = dump
    /\ result' = Ended(err, "")
    /\ pc' = "done"

\* variant: the guard off by one byte
InsufficientBytesOffByOne(d) == ~RND /\ d.remaining < MinBytes - 1
\* variant: the guard looks at the bytes in random mode too
InsufficientBytesInAnyMode(d) == d.remaining < MinBytes
\* lines 37 and 57: !RND && data.remainingBytes < 16
InsufficientBytes(d) == ~RND /\ d.remaining < MinBytes
\* variant: the bound compared with >=
ExceedsBoundEarly(n) == n >= MAX_STEPS
\* line 69
ExceedsBound(n) == n > MAX_STEPS
\* variant: the missing-actions check left out
MissingActionsIgnored(v) == FALSE
\* line 78: !view.actions
MissingActions(v) == ~v.hasActions
\* variant: game-over is never recognized
IsTerminalNever(st) == FALSE
\* line 74: state.state === "game_over"
IsTerminal(st) == st.state = "game_over"
\* line 100
NoActionsLeft(actions) == Len(Keys(actions)) = 0

\* lines 36-40: the provider is built and the minimum-bytes guard is checked
FuzzEntry ==
    /\ pc = "entry"
    /\ IF InsufficientBytes(data)
       THEN result' = Ended("-1", "") /\ pc' = "done"
       ELSE result' = result /\ pc' = "setup"
    /\ UNCHANGED << cfgVars, data, game_setup, state, step, loopVars, crash, calls,
                    lastApply, lastResult, replayVars, trace >>

\* lines 41-55: the seed draw (which gives sd), scenario, RULES.setup (which
\* answers s0), step = 0
Setup(s0, sd) ==
    /\ pc = "setup"
    /\ sd \in rndSeed(data)
    /\ \E sc \in pick(Consumed(sd), RULES.scenarios, "undefined") :
          /\ data' = Consumed(sc)
          /\ IF sc.threw
             THEN /\ result' = Ended("Error", "")
                  /\ pc' = "done"
                  /\ UNCHANGED << game_setup, state, step, calls, lastResult, trace >>
             ELSE /\ game_setup' = [seed |-> sd.val, scenario |-> sc.val]
                  /\ state' = s0
                  /\ lastResult' = s0
                  /\ calls' = [calls EXCEPT !.setup = @ + 1]
                  /\ step' = 0
                  /\ trace' = Record(Event("setup", sd.val, sc.val, "", ""))
                  /\ pc' = "guard"
                  /\ UNCHANGED result
    /\ UNCHANGED << cfgVars, loopVars, crash, lastApply, replayVars >>

\* lines 57-60
LoopGuard ==
    /\ pc = "guard"
    /\ IF InsufficientBytes(data)
       THEN result' = Ended("-1", "") /\ pc' = "done"
       ELSE result' = result /\ pc' = "role"
    \* the loop body's variables are fresh in every iteration
    /\ active' = "" /\ view' = NoView /\ viewRaw' = << >> /\ names' = << >>
    /\ action' = "" /\ args' = DUndef /\ arg' = "null" /\ hook' = NoHook
    /\ lastApply' = NoCall
    /\ UNCHANGED << cfgVars, data, game_setup, state, step, crash, calls,
                    lastResult, replayVars, trace >>

\* lines 61-65
ResolveRole ==
    /\ pc = "role"
    /\ IF state.active = "Both" \/ state.active = "All"
       THEN \E r \in pick(data, RULES.roles, "undefined") :
               /\ data' = Consumed(r)
               /\ IF r.threw
                  THEN result' = Ended("Error", "") /\ pc' = "done" /\ active' = active
                  ELSE result' = result /\ pc' = "view" /\ active' = r.val
       ELSE /\ active' = state.active
            /\ pc' = "view"
            /\ UNCHANGED << data, result >>
    /\ UNCHANGED << cfgVars, game_setup, state, step, view, viewRaw, names, action, args,
                    arg, hook, crash, calls, lastApply, lastResult, replayVars, trace >>

\* line 67: RULES.view(state, active) answers v
RequestView(v) ==
    /\ pc = "view"
    /\ view' = v
    /\ viewRaw' = v.actions
    /\ held' = Hold(state, active, v)
    /\ pc' = "bound"
    /\ UNCHANGED << cfgVars, data, game_setup, state, step, active, names, action, args,
                    arg, hook, result, crash, calls, lastApply, lastResult, run, first,
                    trace >>

\* variant: game-over is looked at before the bound
BoundCheckAfterTerminal ==
    /\ pc = "bound"
    /\ IF IsTerminal(state)
       THEN result' = Ended("returned", "") /\ pc' = "done" /\ crash' = crash
       ELSE IF ExceedsBound(step)
            THEN Raise("MaxStepsExceededError",
                       log_crash(state, view, step, active, "undefined", "undefined"))
            ELSE pc' = "terminal" /\ UNCHANGED << result, crash >>
    /\ UNCHANGED << cfgVars, data, game_setup, state, step, loopVars, calls, lastApply,
                    lastResult, replayVars, trace >>

\* lines 69-72
BoundCheck ==
    /\ pc = "bound"
    /\ IF ExceedsBound(step)
       THEN Raise("MaxStepsExceededError", log_crash(state, view, step, active, "undefined", "undefined"))
       ELSE pc' = "terminal" /\ UNCHANGED << result, crash >>
    /\ UNCHANGED << cfgVars, data, game_setup, state, step, loopVars, calls, lastApply,
                    lastResult, replayVars, trace >>

\* lines 74-76: break, and fuzz returns undefined
TerminalCheck ==
    /\ pc = "terminal"
    /\ IF IsTerminal(state)
       THEN result' = Ended("returned", "") /\ pc' = "done"
       ELSE result' = result /\ pc' = "avail"
    /\ UNCHANGED << cfgVars, data, game_setup, state, step, loopVars, crash, calls,
                    lastApply, lastResult, replayVars, trace >>

\* lines 78-81
AvailabilityCheck ==
    /\ pc = "avail"
    /\ IF MissingActions(view)
       THEN Raise("NoMoreActionsError", log_crash(state, view, step, active, "undefined", "undefined"))
       ELSE pc' = "normalize" /\ UNCHANGED << result, crash >>
    /\ UNCHANGED << cfgVars, data, game_setup, state, step, loopVars, calls, lastApply,
                    lastResult, replayVars, trace >>

\* lines 83-98: `actions` is view.actions, changed in place
NormalizeActions ==
    /\ pc = "normalize"
    /\ LET n == Normalize(view.actions)
       IN /\ view' = [view EXCEPT !.actions = n.actions]
          \* the object the engine keeps is this very object
          /\ held' = Hold(state, active, [view EXCEPT !.actions = n.actions])
          /\ IF n.threw
             THEN result' = Ended("TypeError", "") /\ pc' = "done"
             ELSE result' = result /\ pc' = "empty"
    /\ UNCHANGED << cfgVars, data, game_setup, state, step, active, viewRaw, names,
                    action, args, arg, hook, crash, calls, lastApply, lastResult,
                    run, first, trace >>

\* lines 100-103
EmptyCheck ==
    /\ pc = "empty"
    /\ IF NoActionsLeft(view.actions)
       THEN Raise("NoMoreActionsError", log_crash(state, view, step, active, "undefined", "undefined"))
       ELSE pc' = "pick" /\ UNCHANGED << result, crash >>
    /\ UNCHANGED << cfgVars, data, game_setup, state, step, loopVars, calls, lastApply,
                    lastResult, replayVars, trace >>

\* lines 104-106
PickAction ==
    /\ pc = "pick"
    /\ names' = Keys(view.actions)
    /\ \E r \in pick(data, Keys(view.actions), "undefined") :
          /\ data' = Consumed(r)
          /\ action' = r.val
          /\ args' = Get(view.actions, r.val)
    /\ arg' = "null"
    /\ pc' = "args"
    /\ UNCHANGED << cfgVars, game_setup, state, step, active, view, viewRaw, hook, result,
                    crash, calls, lastApply, lastResult, replayVars, trace >>

\* line 108
IsPool(a) == a.t \notin { "undefined", "null", "number", "boolean" }
\* lines 110-115: `for (const arg in args)` runs over the KEYS of args
NaNFound(a) == \E i \in 1..Len(a.keys) : isNaN(a.keys[i])
\* args.length: an array has one, a plain object has none (undefined)
HasLength(a) == a.t = "array"
\* line 117: pick(data, args).  On a pool without length, with RND on the
\* index is NaN and args[NaN] is undefined; with RND off pickValue is asked
\* for a range up to NaN and throws.
pickArg(d, a) ==
    IF HasLength(a) THEN pick(d, a.pool, "undefined")
    ELSE { [val |-> "undefined", remaining |-> d.remaining, threw |-> ~RND] }

\* lines 108-118
ResolveArg ==
    /\ pc = "args"
    /\ IF IsPool(args)
       THEN IF NaNFound(args)
            THEN /\ Raise("InvalidActionArgument",
                          log_crash(state, view, step, active, "undefined", "undefined"))
                 /\ UNCHANGED << arg, data >>
            ELSE /\ \E r \in pickArg(data, args) :
                       /\ data' = Consumed(r)
                       /\ IF r.threw
                          THEN arg' = arg /\ result' = Ended("Error", "") /\ pc' = "done"
                          ELSE arg' = r.val /\ result' = result /\ pc' = "log"
                 /\ crash' = crash
       ELSE pc' = "log" /\ UNCHANGED << arg, data, result, crash >>
    /\ UNCHANGED << cfgVars, game_setup, state, step, active, view, viewRaw, names, action,
                    args, hook, calls, lastApply, lastResult, replayVars, trace >>

\* lines 121-129
TraceHook ==
    /\ pc = "log"
    /\ hook' = IF RULES.fuzz_log
               THEN [called |-> TRUE, view |-> view, actions |-> Keys(view.actions),
                     chosen_action |-> action, chosen_arg |-> arg]
               ELSE hook
    /\ pc' = "apply"
    /\ UNCHANGED << cfgVars, data, game_setup, state, step, active, view, viewRaw, names,
                    action, args, arg, result, crash, calls, lastApply, lastResult,
                    replayVars, trace >>

\* line 141
NextStep(n) == n + 1

\* lines 131-141: RULES.action / RULES.resign answers s1 or raises the error e
Apply(s1, raises, e) ==
    /\ pc = "apply"
    /\ LET fn == IF action # "_resign" THEN "action" ELSE "resign"
           \* calling an absent RULES.resign is itself a TypeError inside the try
           fails == raises \/ (fn = "resign" /\ ~RULES.resign)
           \* and then the engine is never entered, so its error cannot come out
           err == IF fn = "resign" /\ ~RULES.resign THEN "TypeError" ELSE e
       IN /\ lastApply' = [fn |-> fn, state |-> state, active |-> active,
                           action |-> IF fn = "action" THEN action ELSE "",
                           arg |-> IF fn = "action" THEN arg ELSE "",
                           threw |-> IF fails THEN err ELSE ""]
          /\ calls' = [calls EXCEPT !.apply = @ + 1]
          /\ trace' = Record(Event("step", SeedOf(0, 0), active, action, arg))
          /\ IF fails
             THEN /\ crash' = log_crash(state, view, step, active, action, arg)
                  /\ result' = Ended("RulesCrashError", err)
                  /\ pc' = "done"
                  /\ UNCHANGED << state, step, lastResult >>
             ELSE /\ state' = s1
                  /\ lastResult' = s1
                  /\ step' = NextStep(step)
                  /\ pc' = "guard"
                  /\ UNCHANGED << result, crash >>
    /\ UNCHANGED << cfgVars, data, game_setup, loopVars, replayVars >>

(***************************************************************************)
(* Initial states: a configuration, a rules engine and an input buffer.     *)
(***************************************************************************)
Config(r, u, s, e, b) == [RND |-> r, NO_UNDO |-> u, NO_RESIGN |-> s, RULES |-> e, bytes |-> b]
\* a long buffer with varied bytes
RichBuffer == Zeros(LongLen - SeedBytes - 2) \o << 2, 1 >> \o << 1, 2, 3, 4, 5 >>
Configs ==
    \* every flag combination, deterministic and random
    { Config(r, u, s, e, IF r THEN Zeros(0) ELSE RichBuffer) :
        r \in BOOLEAN, u \in BOOLEAN, s \in BOOLEAN, e \in { EngineResign, EngineNoResign } }
    \* every buffer, deterministic
    \cup { Config(FALSE, FALSE, FALSE, e, b) :
             e \in { EngineResign, EngineNoResign }, b \in Buffers }
    \* engines with an empty scenario or role list
    \cup { Config(r, FALSE, FALSE, e, RichBuffer) :
             r \in BOOLEAN, e \in { EngineNoScenarios, EngineNoRoles } }

InitRun(c, n) ==
    /\ RND = c.RND /\ NO_UNDO = c.NO_UNDO /\ NO_RESIGN = c.NO_RESIGN /\ RULES = c.RULES
    /\ data = NewProvider(c.bytes)
    /\ pc = "entry"
    /\ game_setup = NoSetup
    /\ state = NoState
    /\ step = 0
    /\ active = "" /\ view = NoView /\ viewRaw = << >> /\ names = << >>
    /\ action = "" /\ args = DUndef /\ arg = "null" /\ hook = NoHook
    /\ result = Running
    /\ crash = << >>
    /\ calls = [setup |-> 0, apply |-> 0]
    /\ lastApply = NoCall
    /\ lastResult = NoState
    /\ run = n
    /\ trace = << >>
    /\ first = NoFirst
    /\ held = { }

Init == \E c \in Configs : InitRun(c, 0)

\* line 41 with Math.random() = k / SeedSamples:
\* Math.floor((k / SeedSamples) * (2^35-31) + 1), limb by limb
SeedAt(k) ==
    LET a    == k * MaxSeed.hi
        rest == (a % SeedSamples) * Limb + k * MaxSeed.lo
    IN SeedOf(a \div SeedSamples, (rest \div SeedSamples) + 1)
\* The seed draws that are explored: what the provider gives for the buffer,
\* and, for a random draw, SeedSamples evenly spaced values of Math.random()
\* and the largest seed.
SeedInputs == { SeedAt(k) : k \in 0..(SeedSamples - 1) } \cup { MaxSeed }
SeedDraws(d) ==
    { consumeSeed(d) }
    \cup [val : SeedInputs, remaining : { d.remaining }, threw : { FALSE }]

\* A replay: fuzz is called a second time with the same input buffer, the
\* same configuration and the same deterministic rules engine, which is not
\* reloaded in between: what it keeps, it keeps.  In random mode the buffer
\* is not read and each call draws for itself.
RulesTables == 1..6
ReplayConfigs ==
    { Config(FALSE, u, r, [e EXCEPT !.table = t, !.shares = sh], b) :
        u \in BOOLEAN, r \in BOOLEAN, e \in { EngineResign, EngineNoResign },
        t \in RulesTables, sh \in BOOLEAN, b \in LongBuffers }
    \cup { Config(TRUE, u, r, [e EXCEPT !.table = t, !.shares = sh], Zeros(0)) :
             u \in BOOLEAN, r \in BOOLEAN, e \in { EngineResign, EngineNoResign },
             t \in RulesTables, sh \in BOOLEAN }
InitReplay == \E c \in ReplayConfigs : InitRun(c, 1)

\* line 36 of the second call: a new provider over the same bytes
Restart ==
    /\ pc = "done"
    /\ run = 1
    /\ run' = 2
    /\ first' = [trace |-> trace, result |-> result, state |-> state]
    /\ data' = NewProvider(data.bytes)
    /\ pc' = "entry"
    /\ game_setup' = NoSetup
    /\ state' = NoState
    /\ step' = 0
    /\ active' = "" /\ view' = NoView /\ viewRaw' = << >> /\ names' = << >>
    /\ action' = "" /\ args' = DUndef /\ arg' = "null" /\ hook' = NoHook
    /\ result' = Running
    /\ crash' = << >>
    /\ calls' = [setup |-> 0, apply |-> 0]
    /\ lastApply' = NoCall
    /\ lastResult' = NoState
    /\ trace' = << >>
    /\ UNCHANGED << cfgVars, held >>

Next ==
    \/ FuzzEntry
    \/ \E s0 \in GameStates(0), sd \in SeedDraws(data) : Setup(s0, sd)
    \/ LoopGuard
    \/ ResolveRole
    \/ \E v \in Views : RequestView(v)
    \/ BoundCheck
    \/ TerminalCheck
    \/ AvailabilityCheck
    \/ NormalizeActions
    \/ EmptyCheck
    \/ PickAction
    \/ ResolveArg
    \/ TraceHook
    \/ \E s1 \in GameStates(calls.apply + 1), raises \in BOOLEAN :
          Apply(s1, raises, "EngineError")

Spec == Init /\ [][Next]_vars

NextReplay ==
    \/ FuzzEntry
    \/ \E s0 \in GameStates(0), sd \in SeedDraws(data) :
          /\ Setup(s0, sd)
          /\ s0 = RulesSetup(game_setup'.seed, game_setup'.scenario)
    \/ LoopGuard
    \/ ResolveRole
    \/ RequestView(ViewReturned(state, active))
    \/ BoundCheck
    \/ TerminalCheck
    \/ AvailabilityCheck
    \/ NormalizeActions
    \/ EmptyCheck
    \/ PickAction
    \/ ResolveArg
    \/ TraceHook
    \/ LET r == RulesApply(state, active, action, arg)
       IN Apply(r.state, r.raises, "EngineError")
    \/ Restart

SpecReplay == InitReplay /\ [][NextReplay]_vars

(***************************************************************************)
(* Vocabulary of the properties, stated on the values the rules engine      *)
(* returned and independent of the operators that model the driver.         *)
(***************************************************************************)
\* a descriptor that is exactly false, exactly 0, or an empty sequence
DescriptorDisabled(d) ==
    \/ d = DBool(FALSE)
    \/ d = DNum(0)
    \/ d = DArr(<< >>)
\* entries of the mapping RULES.view returned in this step
RawEntries == { viewRaw[i] : i \in 1..Len(viewRaw) }
NameSet == { names[i] : i \in 1..Len(names) }
\* an action has been picked in the current step
Picked == pc \in { "args", "log", "apply" } \/ lastApply.fn # ""
\* the run is in (or ended in) a step whose view has been returned
ViewSeen == view.defined

C2_ShortBufferReturnsMinusOne ==
    (~RND /\ Len(data.bytes) < MinBytes /\ pc # "entry") =>
        /\ pc = "done"
        /\ result = Ended("-1", "")
        /\ data.remaining = Len(data.bytes)
        /\ game_setup = NoSetup
        /\ calls = [setup |-> 0, apply |-> 0]
        /\ state = NoState
        /\ crash = << >>

C2_Witness ==
    /\ ~RND
    /\ data.bytes = Zeros(MinBytes - 1)
    /\ pc = "done"
    /\ result.kind = "-1"

\* C3 (as claimed): once an action has been picked in a step, the names it
\* was picked from hold no action whose descriptor is false, 0 or an empty
\* sequence, the picked name is one of them, and an action the view gave such
\* a descriptor is neither picked nor passed to RULES.action.
C3_ChosenActionIsEnabled ==
    Picked =>
        /\ action \in NameSet
        /\ \A n \in NameSet : Has(view.actions, n) /\ ~DescriptorDisabled(Get(view.actions, n))
        /\ \A e \in RawEntries : DescriptorDisabled(e.value) => e.key \notin NameSet
        /\ \A e \in RawEntries : DescriptorDisabled(e.value) => action # e.key
        /\ lastApply.fn = "action" =>
              /\ lastApply.action = action
              /\ \A e \in RawEntries : DescriptorDisabled(e.value) => lastApply.action # e.key

\* the view's entry e is the one the injection of "_resign" writes over
Overwritten(e) == ~NO_RESIGN /\ RULES.resign /\ e.key = "_resign"

\* C3 (amended): the same, except for an entry the view itself named
\* "_resign" in a step where "_resign" is injected: the injection replaces
\* its descriptor by 1, so that name stays among the names and may be picked
\* (as a resignation); it is still never passed to RULES.action.
C3_ChosenActionEnabledOrInjected ==
    Picked =>
        /\ action \in NameSet
        /\ \A n \in NameSet : Has(view.actions, n) /\ ~DescriptorDisabled(Get(view.actions, n))
        /\ \A e \in RawEntries :
              (DescriptorDisabled(e.value) /\ ~Overwritten(e)) => e.key \notin NameSet
        /\ \A e \in RawEntries :
              (DescriptorDisabled(e.value) /\ ~Overwritten(e)) => action # e.key
        /\ \A e \in RawEntries :
              Overwritten(e) => (e.key \in NameSet /\ Get(view.actions, e.key) = DNum(1))
        /\ lastApply.fn = "action" =>
              /\ lastApply.action = action
              /\ \A e \in RawEntries : DescriptorDisabled(e.value) => lastApply.action # e.key

C3_Witness ==
    /\ lastApply.fn = "action"
    /\ lastApply.action = "move"
    /\ \E e \in RawEntries : e.key = "undo" /\ DescriptorDisabled(e.value)
    /\ ~NO_RESIGN /\ RULES.resign /\ "_resign" \in NameSet

\* C5 (as claimed): when the chosen action's descriptor is a pool holding a
\* NaN entry, the run ends with InvalidActionArgument after a dump, no
\* argument is picked and no action is applied.
PoolHasNaN(d) == IsPool(d) /\ \E i \in 1..Len(d.pool) : d.pool[i] = "NaN"
C5_NaNPoolRejected ==
    (Picked /\ PoolHasNaN(args) /\ pc # "args") =>
        /\ pc = "done"
        /\ result.kind = "InvalidActionArgument"
        /\ Len(crash) = 1
        /\ arg = "null"
        /\ lastApply.fn = ""

\* C6: when RULES.action or RULES.resign raises on the k-th apply call, the
\* run ends with RulesCrashError wrapping that error; the one dump reports
\* step k-1 with the chosen action and argument, and the artifact is the
\* state passed to the failing call, which is the state the last accepted
\* call (or setup) returned; the step counter is not incremented.
C6_RulesCrashDump ==
    lastApply.threw # "" =>
        /\ pc = "done"
        /\ result = Ended("RulesCrashError", lastApply.threw)
        /\ Len(crash) = 1
        /\ crash[1].step = calls.apply - 1
        /\ crash[1].action = action
        /\ crash[1].args = arg
        /\ crash[1].active = active
        /\ crash[1].artifact = lastApply.state
        /\ crash[1].artifact = lastResult
        /\ lastResult.id = calls.apply - 1
        /\ step = calls.apply - 1

C6_Witness ==
    /\ lastApply.threw = "EngineError"
    /\ calls.apply = 3
    /\ crash[1].step = 2
    /\ lastApply.fn = "action"

\* C9 (as claimed): with resign-suppression off and an engine that has
\* resign, "_resign" is among the names every action is picked from; with
\* resign-suppression on or an engine without resign, "_resign" is never
\* picked and RULES.resign is never called.
C9_ResignOffered ==
    /\ (~NO_RESIGN /\ RULES.resign /\ Picked) => "_resign" \in NameSet
    /\ (~NO_RESIGN /\ RULES.resign /\ pc = "pick") => Has(view.actions, "_resign")
    /\ (NO_RESIGN \/ ~RULES.resign) =>
          /\ action # "_resign"
          /\ "_resign" \notin NameSet
          /\ lastApply.fn # "resign"

\* C10: with NO_UNDO on, "undo" is never the picked action and RULES.action is
\* never called with it, whatever descriptor the view gives for undo.
C10_UndoNeverChosen ==
    NO_UNDO =>
        /\ action # "undo"
        /\ "undo" \notin NameSet
        /\ lastApply.action # "undo"

C10_Witness ==
    /\ NO_UNDO
    /\ \E e \in RawEntries : e.key = "undo" /\ e.value = DNum(1)
    /\ lastApply.fn = "action"

\* C4 (as claimed): a run whose last step was entered with the counter above
\* MAX_STEPS ended with MaxStepsExceededError.
C4_BoundRaisedWheneverExceeded ==
    (pc = "done" /\ step > MAX_STEPS) => result.kind = "MaxStepsExceededError"

\* C4 (amended): the counter is 0 after setup, goes up by exactly 1 on each
\* accepted action or resignation and changes nowhere else; and
\* MaxStepsExceededError is raised exactly when the bound check of a step
\* (reached once the minimum-bytes guard, role resolution and the view
\* request of that step are through) finds the counter above MAX_STEPS.
C4_StepCounter ==
    [][ /\ (pc = "setup" /\ pc' = "guard") => step' = 0
        /\ (pc = "apply" /\ pc' = "guard") => (lastApply'.threw = "" /\ step' = step + 1)
        /\ ~(pc = "apply" /\ pc' = "guard") => step' = step
        /\ (pc = "apply" /\ lastApply'.threw # "") => pc' = "done"
        /\ (result'.kind = "MaxStepsExceededError" /\ result.kind # "MaxStepsExceededError")
              => (pc = "bound" /\ step > MAX_STEPS)
        /\ (pc = "bound" /\ step > MAX_STEPS)
              => (result'.kind = "MaxStepsExceededError" /\ pc' = "done")
        /\ (pc = "bound" /\ step <= MAX_STEPS) => result' = Running
      ]_vars

C4_Witness ==
    /\ result.kind = "MaxStepsExceededError"
    /\ step = MAX_STEPS + 1
    /\ calls.apply = MAX_STEPS + 1

\* the view of this step has an actions mapping with no enabled action
NoEnabledActions == view.hasActions /\ \A e \in RawEntries : DescriptorDisabled(e.value)
DeadEndOutcome ==
    /\ pc \in { "bound", "terminal", "avail", "normalize", "empty", "done" }
    /\ action = ""
    /\ lastApply.fn = ""
    /\ pc = "done" =>
          /\ result.kind = "NoMoreActionsError"
          /\ Len(crash) = 1
          /\ crash[1].state = state /\ crash[1].step = step /\ crash[1].view = view

\* C7 (as claimed): a step whose state is not game_over and whose view offers
\* no enabled action ends with NoMoreActionsError after a dump and applies
\* nothing, for every setting of NO_UNDO and NO_RESIGN and with or without
\* RULES.resign.
C7_DeadEndAlwaysRaises ==
    (ViewSeen /\ state.state # "game_over" /\ NoEnabledActions /\ lastApply.fn = "")
        => DeadEndOutcome

\* C7 (amended): the same, for the steps that pass the bound check (counter
\* at most MAX_STEPS) and in which "_resign" is not injected (NO_RESIGN on, or
\* an engine without resign); it holds for both settings of NO_UNDO.
C7_DeadEndRaises ==
    (/\ ViewSeen /\ state.state # "game_over" /\ NoEnabledActions
     /\ step <= MAX_STEPS
     /\ (NO_RESIGN \/ ~RULES.resign))
        => DeadEndOutcome

C7_Witness ==
    /\ pc = "done"
    /\ result.kind = "NoMoreActionsError"
    /\ NoEnabledActions
    /\ \E e \in RawEntries : e.value = DArr(<< >>)
    /\ NO_RESIGN /\ RULES.resign

MissingActionsOutcome ==
    /\ pc \in { "bound", "terminal", "avail", "done" }
    /\ action = ""
    /\ lastApply.fn = ""
    /\ pc = "done" =>
          /\ result.kind = "NoMoreActionsError"
          /\ Len(crash) = 1
          /\ crash[1].state = state /\ crash[1].step = step /\ crash[1].view = view
          /\ crash[1].artifact = lastResult

\* C8 (as claimed): a view without an actions field on a state that is not
\* game_over ends the run with NoMoreActionsError in that very step.
C8_MissingActionsAlwaysRaises ==
    (ViewSeen /\ ~view.hasActions /\ state.state # "game_over") => MissingActionsOutcome

\* C8 (amended): the same, for the steps whose counter is at most MAX_STEPS
\* (the bound check comes first and raises MaxStepsExceededError otherwise).
C8_MissingActionsRaises ==
    (ViewSeen /\ ~view.hasActions /\ state.state # "game_over" /\ step <= MAX_STEPS)
        => MissingActionsOutcome

C8_Witness ==
    /\ pc = "done"
    /\ result.kind = "NoMoreActionsError"
    /\ view = ViewWithoutActions
    /\ step = 1
    /\ crash[1].step = 1

\* the four failure terminals and the two terminals that are not failures
FailureKinds == { "MaxStepsExceededError", "NoMoreActionsError", "InvalidActionArgument",
                  "RulesCrashError" }
QuietKinds == { "returned", "-1" }

\* C11: a run that ends with one of the four classified errors has called
\* log_crash exactly once, for the step it ended in and in the same move that
\* raised the error; a run that ends by game-over or by -1 has never called
\* it; so there is at most one dump per run, and a dump exists only on a
\* failure terminal.
C11_DumpExactlyOnFailure ==
    /\ Len(crash) <= 1
    /\ result.kind \in FailureKinds =>
          /\ pc = "done"
          /\ Len(crash) = 1
          /\ crash[1].step = step
          /\ crash[1].artifact = state
    /\ result.kind \in QuietKinds => crash = << >>
    /\ crash # << >> => (pc = "done" /\ result.kind \in FailureKinds)

C11_Witness ==
    /\ pc = "done"
    /\ result.kind = "InvalidActionArgument"
    /\ Len(crash) = 1
    /\ calls.apply = 1
    /\ crash[1].step = 1

\* C12 (as claimed): a call of fuzz that has ended, ended by -1, by a normal
\* return on game-over or by one of the four classified errors, whatever
\* shapes the descriptors of the view have.  (Stated for engines whose
\* scenario and role lists are not empty; empty lists are the subject of C16.)
C12_OnlyClassifiedEndings ==
    (pc = "done" /\ RULES.scenarios # << >> /\ RULES.roles # << >>)
        => result.kind \in QuietKinds \cup FailureKinds

\* C13 (as claimed): a run that ended in a step entered with a game_over
\* state and a counter of at most MAX_STEPS ended as success (a normal
\* return); in particular when RULES.setup itself returned game_over.
C13_GameOverAlwaysSuccess ==
    (pc = "done" /\ calls.setup = 1 /\ state.state = "game_over" /\ step <= MAX_STEPS)
        => result.kind = "returned"

\* C13 (amended): a step entered with a game_over state and a counter of at
\* most MAX_STEPS never reaches the availability check or anything after it,
\* so it applies nothing and leaves the counter alone, and it ends the run
\* with a normal return and no dump, unless the minimum-bytes guard of that
\* step trips first (deterministic mode, fewer than 16 bytes left: -1) or
\* the role pick on an empty role list throws first; when it is RULES.setup
\* that returned game_over, no action or resignation is ever applied and the
\* counter stays 0.
C13_GameOverIsSuccess ==
    (calls.setup = 1 /\ state.state = "game_over" /\ step <= MAX_STEPS) =>
        /\ pc \in { "guard", "role", "view", "bound", "terminal", "done" }
        /\ step = calls.apply
        /\ crash = << >>
        /\ state.id = 0 => (step = 0 /\ calls.apply = 0)
        /\ pc = "done" =>
              \/ result.kind = "returned" /\ ViewSeen
              \/ result.kind = "-1" /\ ~RND /\ data.remaining < MinBytes /\ ~ViewSeen
              \/ /\ result.kind = "Error" /\ ~RND /\ RULES.roles = << >>
                 /\ state.active \in { "Both", "All" } /\ ~ViewSeen

C13_Witness ==
    /\ pc = "done"
    /\ result.kind = "returned"
    /\ state.state = "game_over" /\ state.active = "Both"
    /\ state.id = 0
    /\ active = "r2"
    /\ calls = [setup |-> 1, apply |-> 0]

\* C14: in deterministic mode a turn that begins with fewer than 16
\* unconsumed bytes ends the run at once with -1: nothing is consumed, no
\* role is picked, RULES.view is not called, nothing is applied, no error is
\* raised and nothing is dumped in that turn; and -1 is returned only so, by
\* the guard of the entry or of a turn, never in random mode.
C14_GuardEveryTurn ==
    [][ /\ (pc = "guard" /\ ~RND /\ data.remaining < MinBytes) =>
              /\ pc' = "done"
              /\ result' = Ended("-1", "")
              /\ data' = data
              /\ active' = "" /\ view' = NoView /\ action' = ""
              /\ lastApply' = NoCall
              /\ calls' = calls /\ state' = state /\ step' = step
              /\ crash' = crash /\ crash = << >>
        /\ (pc = "guard" /\ (RND \/ data.remaining >= MinBytes)) => pc' = "role"
        /\ (result'.kind = "-1" /\ result.kind # "-1") =>
              /\ ~RND
              /\ pc \in { "entry", "guard" }
              /\ data.remaining < MinBytes
      ]_vars

C14_Witness ==
    /\ ~RND
    /\ pc = "done"
    /\ result.kind = "-1"
    /\ calls.apply = 2
    /\ data.remaining = MinBytes - 1
    /\ view = NoView

\* C15 (as claimed): the actions mapping of the view RULES.view returned is
\* never changed by the driver, so the view the trace hook and the crash
\* reporter receive in that step carries exactly the actions the engine
\* returned.
C15_ViewActionsUntouched ==
    /\ ViewSeen => view.actions = viewRaw
    /\ hook.called => hook.view.actions = viewRaw
    /\ (crash # << >> /\ ViewSeen) => crash[1].view.actions = viewRaw

\* C16 (as claimed): once a pick has been requested on an empty collection
\* (the scenario list at setup, or the role list in a step whose state has
\* the active role "Both" or "All"), the run has ended with -1; no exception
\* has been raised and no undefined choice has reached the rules engine.
C16_EmptyPickIsInsufficientInput ==
    /\ (RULES.scenarios = << >> /\ pc \notin { "entry", "setup" }) =>
          /\ pc = "done"
          /\ result.kind = "-1"
          /\ calls.setup = 0
    /\ (/\ RULES.roles = << >>
        /\ state.active \in { "Both", "All" }
        /\ pc \notin { "guard", "role" }) =>
          /\ pc = "done"
          /\ result.kind = "-1"
          /\ ~ViewSeen

\* a descriptor that carries no argument: undefined, null, a boolean, a number
NoArgumentDescriptor(d) == d.t \in { "undefined", "null", "boolean", "number" }
PoolElements(d) == { d.pool[i] : i \in 1..Len(d.pool) }

\* C17 (as claimed): when the descriptor of the chosen action is undefined,
\* null, a boolean or a number (the injected "_resign" has the number 1), argument
\* resolution consumes nothing and leaves the argument null, and a call of
\* RULES.action gets null; otherwise argument resolution either raises or
\* makes one pick, whose value is an element of the descriptor's pool, and a
\* call of RULES.action gets that element; nothing else in the step changes
\* the argument or draws for it.
C17_ArgumentResolution ==
    [][ /\ (pc = "pick" /\ action' = "_resign") => args' = DNum(1)
        /\ pc = "pick" => arg' = "null"
        /\ (pc = "args" /\ NoArgumentDescriptor(args)) =>
              (pc' = "log" /\ arg' = "null" /\ data' = data)
        /\ (pc = "args" /\ ~NoArgumentDescriptor(args) /\ pc' = "log") =>
              /\ arg' \in PoolElements(args)
              /\ data.remaining - data'.remaining \in 0..1
        /\ (pc = "args" /\ pc' # "log") => (pc' = "done" /\ arg' = "null")
        /\ pc = "log" => (arg' = arg /\ data' = data /\ args' = args)
        /\ pc = "apply" =>
              /\ data' = data /\ arg' = arg /\ args' = args
              /\ lastApply'.fn = "action" =>
                    /\ lastApply'.arg = arg
                    /\ NoArgumentDescriptor(args) => lastApply'.arg = "null"
                    /\ ~NoArgumentDescriptor(args) => lastApply'.arg \in PoolElements(args)
      ]_vars

\* C18 (as claimed): a run makes at most MAX_STEPS + 1 calls of RULES.action
\* or RULES.resign, and when it has ended, after those calls, it has ended by
\* a normal return, by -1, by MaxStepsExceededError or by another of the
\* classified errors, for any buffer and any rules engine.
C18_BoundedCallsThenClassifiedEnd ==
    /\ calls.apply <= MAX_STEPS + 1
    /\ calls.apply = step + (IF lastApply.threw # "" THEN 1 ELSE 0)
    /\ pc = "done" =>
          \/ result.kind = "returned" /\ step <= MAX_STEPS
          \/ result.kind = "-1"
          \/ result.kind = "MaxStepsExceededError" /\ step = MAX_STEPS + 1
          \/ result.kind \in FailureKinds \ { "MaxStepsExceededError" } /\ step <= MAX_STEPS

\* C19 (as claimed): a run whose last step was entered with the counter
\* above MAX_STEPS and a game_over state ended with MaxStepsExceededError and
\* a dump.
C19_ExceededStepEndsInBoundExceeded ==
    (pc = "done" /\ calls.setup = 1 /\ step > MAX_STEPS /\ state.state = "game_over") =>
        /\ result.kind = "MaxStepsExceededError"
        /\ Len(crash) = 1

\* C19 (amended): the checks of a step run in the order minimum-bytes guard,
\* role resolution, view request, bound check, terminal check, availability
\* check, each reached only if the ones before it did not end the run; a
\* bound check reached with the counter above MAX_STEPS raises
\* MaxStepsExceededError after a dump whatever the state is, game_over
\* included, so the terminal check is only reached with a counter of at most
\* MAX_STEPS and a normal return happens only there, on a game_over state.
C19_OrderOfChecks ==
    [][ /\ pc = "guard" => (pc' \in { "role", "done" } /\ ~view'.defined)
        /\ pc = "role" => (pc' \in { "view", "done" } /\ ~ViewSeen)
        /\ pc = "view" => (pc' = "bound" /\ ~ViewSeen /\ view'.defined)
        /\ pc = "bound" =>
              /\ ViewSeen
              /\ step > MAX_STEPS =>
                    /\ pc' = "done"
                    /\ result'.kind = "MaxStepsExceededError"
                    /\ Len(crash') = 1 /\ crash'[1].step = step
                    /\ crash'[1].artifact = state
              /\ step <= MAX_STEPS => (pc' = "terminal" /\ result' = Running)
        /\ pc = "terminal" =>
              /\ step <= MAX_STEPS
              /\ state.state = "game_over" => (pc' = "done" /\ result'.kind = "returned")
              /\ state.state # "game_over" => (pc' = "avail" /\ result' = Running)
        /\ pc = "avail" =>
              /\ step <= MAX_STEPS /\ state.state # "game_over"
              /\ pc' \in { "normalize", "done" }
        /\ (result'.kind = "returned" /\ result.kind # "returned") =>
              (pc = "terminal" /\ step <= MAX_STEPS /\ state.state = "game_over")
      ]_vars

C19_Witness ==
    /\ pc = "done"
    /\ result.kind = "MaxStepsExceededError"
    /\ state.state = "game_over"
    /\ step = MAX_STEPS + 1
    /\ Len(crash) = 1
    /\ crash[1].artifact = state

====
